---- MODULE Spec2Model ----
(***************************************************************************)
(* TechFlow AI Recruiter: the turn orchestrator (RecruitmentBot), the      *)
(* scheduling advisor and the two slot stores (SQLite DatabaseManager and  *)
(* MongoDBManager), modelled from the Python sources.                      *)
(*                                                                         *)
(* Text is abstracted by the phrases it contains: an utterance is the set  *)
(* of keyword phrases that occur in it as substrings, an LLM answer is the *)
(* set of labels that occur in it (or a raised exception).                 *)
(***************************************************************************)
EXTENDS Integers, Sequences, FiniteSets, TLC

\* ------------------------------------------------------------------ bounds
MaxDate == 2            \* dates are 0..MaxDate, Today is date 1
MaxHour == 9            \* slot hours are FirstHour..MaxHour
MaxDetails == 3         \* cap on screening_details_collected
MaxBookings == 2        \* cap on the book_slot successes counted per slot
MaxOffers == 2          \* a history holds at most MaxOffers date or time passages
MaxClock == 1           \* conversation_start is one of the clock readings 0..MaxClock

\* -------------------------------------------------------- program constants
FirstHour == 9          \* init_database: for hour in range(9, 17)
DefaultLimit == 3       \* limit: int = 3
Today == 1              \* datetime.now().strftime('%Y-%m-%d')

None == -1               \* Python None for an optional date or time
DefaultPosition == "Python Dev"
Positions == {"Python Dev", "Sql Dev"}
Dates == 0..MaxDate
Times == FirstHour..MaxHour
SlotKeys == Dates \X Times \X Positions
\* init_database seeds rows from today on (start_date = datetime.now())
SeededKeys == {k \in Dates \X Times \X {DefaultPosition} : k[1] >= Today}

\* ---------------------------------------------------------------- variables
VARIABLES
    Schedule,                     \* SQLite table Schedule: row key -> available
    screening_details_collected,  \* RecruitmentBot state of one conversation
    screening_complete,
    is_interview_booked,
    pc,                           \* position of the conversation's process_turn
    cur,                          \* the process_turn call in progress
    turn,                         \* the process_turn call that just completed
    scenario,                     \* how far the caller's utterances since creation
                                  \* or reset follow the end-to-end scenario
    conflict,                     \* a booking of this conversation failed, since
                                  \* creation or reset, on a slot booked meanwhile
    conversation_start,           \* RecruitmentBot.conversation_start, as the
                                  \* position of its clock reading
    successes,                    \* book_slot successes returned, per row key
    backend,                      \* store deployed: "sqlite", "mongo", "mongo_mock"
    collection,                   \* MongoDB collection Availability: key -> available
    mock,                         \* _mock_data of the long-lived MongoDBManager
    tpc,                          \* position of each store caller
    tkey,                         \* slot key of the caller's book_slot in progress
    sret,                         \* the store call that just completed
    parsed,                       \* the _parse_datetime call that just completed
    classified,                   \* the classifier call that just completed
    ranked,                       \* the near-date search that just completed
    validated                     \* the validation layer run that just completed

botvars == <<screening_details_collected, screening_complete, is_interview_booked,
             conversation_start>>
convvars == <<screening_details_collected, screening_complete,
              is_interview_booked, conversation_start, pc, cur, turn, scenario,
              conflict>>
callervars == <<backend, collection, mock, tpc, tkey, sret>>
purevars == <<parsed, classified, ranked, validated>>
vars == <<Schedule, screening_details_collected, screening_complete,
          is_interview_booked, conversation_start, pc, cur, turn, scenario,
          conflict, successes,
          backend, collection, mock, tpc, tkey, sret, parsed, classified, ranked,
          validated>>

\* ===================================================== SQLite DatabaseManager

RECURSIVE OrderBy(_, _)
\* the rows of set S as a sequence, ascending in the sort key (a function on S)
OrderBy(S, key) ==
    IF S = {} THEN <<>>
    ELSE LET m == CHOOSE x \in S : \A y \in S : key[x] <= key[y]
         IN <<m>> \o OrderBy(S \ {m}, key)

\* ORDER BY date, time (times are below 100)
DateTimeKey(k) == k[1] * 100 + k[2]

Limit(seq, n) == SubSeq(seq, 1, IF Len(seq) < n THEN Len(seq) ELSE n)

SeqRange(seq) == {seq[i] : i \in 1..Len(seq)}

\* DatabaseManager.get_available_slots
get_available_slots(S, date, position, limit) ==
    LET rows == IF date # None
                THEN {k \in DOMAIN S : S[k] /\ k[3] = position /\ k[1] = date}
                ELSE {k \in DOMAIN S : S[k] /\ k[3] = position /\ k[1] >= Today}
    IN Limit(OrderBy(rows, [k \in rows |-> DateTimeKey(k)]), limit)

\* DatabaseManager.check_slot_availability
check_slot_availability(S, k) == k \in DOMAIN S /\ S[k]

\* mutant: the UPDATE without "AND position = ?"
BookUpdateAnyPosition(S, k) ==
    [r \in DOMAIN S |-> IF r[1] = k[1] /\ r[2] = k[2] THEN FALSE ELSE S[r]]

\* the UPDATE statement of DatabaseManager.book_slot
BookUpdate(S, k) == [r \in DOMAIN S |-> IF r = k THEN FALSE ELSE S[r]]

Abs(n) == IF n < 0 THEN -n ELSE n

\* DatabaseManager.get_slots_near_date
get_slots_near_date(S, target, position, limit) ==
    LET rows == {k \in DOMAIN S : S[k] /\ k[3] = position}
    IN Limit(OrderBy(rows, [k \in rows |-> Abs(k[1] - target) * 100 + k[2]]), limit)

\* ======================================================= text abstractions

\* RecruitmentBot._update_screening_progress: exp_keywords, tech_keywords
exp_keywords == {"year", "experience", "worked for", "been working"}
tech_keywords == {"python", "django", "flask", "aws", "docker", "sql",
                  "fastapi", "react", "kubernetes", "cloud"}
Digits == {"3", "5"}

\* InfoAdvisor.needs_info_retrieval: question_indicators
question_indicators == {"?", "what", "how", "which", "when", "where", "who",
                        "why", "tell me", "explain", "describe", "requirements",
                        "salary", "benefits", "stack", "technology", "company",
                        "team", "responsibilities", "experience needed"}

\* RecruitmentBot._is_disengaged: the two phrase lists
disengaged == {"nope", "no", "nah", "not interested", "stop",
               "leave me alone", "go away", "don't want"}
refusals == {"don't want to tell", "won't tell", "not interested", "leave me alone"}

\* An utterance is the set of phrases it contains as substrings.
Utterances == {
    {"year", "5", "django"},      \* "I have 5 years with Django"
    {"aws", "docker"},            \* "We use AWS and Docker"
    {},                           \* "I like coding"
    {"?"},                        \* "Can we schedule?"
    {"year", "3"},                \* "3 years"
    {"experience"},               \* "I have some experience"
    {"no"},                       \* "no"
    {"not interested", "no"},     \* "I'm not interested"
    {"won't tell"} }              \* "I won't tell you"

\* An answer of the external LLM capability: the call raises, or it returns
\* text in which the labels of the set `labels` occur.
LLMAnswer(labelSets) ==
    {[fails |-> TRUE, labels |-> {}]} \cup
    {[fails |-> FALSE, labels |-> l] : l \in labelSets}

ActionOutputs == LLMAnswer({{}, {"CONTINUE"}, {"SCHEDULE"}, {"END"},
                            {"SCHEDULE", "END"}, {"CONTINUE", "END"}})
ExitOutputs == LLMAnswer({{}, {"CONTINUE"}, {"END"}, {"CONTINUE", "END"}})

\* ================================================================ classifiers

\* MainAgent.decide_action
decide_action(raw) ==
    IF raw.fails THEN "ERROR"
    ELSE IF "CONTINUE" \in raw.labels THEN "CONTINUE"
    ELSE IF "SCHEDULE" \in raw.labels THEN "SCHEDULE"
    ELSE IF "END" \in raw.labels THEN "END"
    ELSE "CONTINUE"

\* mutant: a failed call confirms the exit
evaluate_failure_ends(raw) ==
    IF raw.fails THEN "END"
    ELSE IF "END" \in raw.labels THEN "END" ELSE "CONTINUE"

\* ExitAdvisor.evaluate
evaluate(raw) ==
    IF raw.fails THEN "CONTINUE"
    ELSE IF "END" \in raw.labels THEN "END" ELSE "CONTINUE"

\* ExitAdvisor.should_exit
should_exit(raw) == evaluate(raw) = "END"

\* mutant: at most one increment per utterance
ScreeningIncrementOnce(u) ==
    IF (u \cap exp_keywords # {} /\ u \cap Digits # {}) \/ u \cap tech_keywords # {}
    THEN 1 ELSE 0

\* mutant: an experience keyword counts without a numeral
ScreeningIncrementNoNumeral(u) ==
    (IF u \cap exp_keywords # {} THEN 1 ELSE 0)
  + (IF u \cap tech_keywords # {} THEN 1 ELSE 0)

\* the increment made by RecruitmentBot._update_screening_progress
ScreeningIncrement(u) ==
    (IF u \cap exp_keywords # {} /\ u \cap Digits # {} THEN 1 ELSE 0)
  + (IF u \cap tech_keywords # {} THEN 1 ELSE 0)

\* RecruitmentBot._is_disengaged; negCount is the number of occurrences of
\* 'candidate: no' and 'candidate: nope' in the lower-cased history
is_disengaged(u, negCount) ==
    \/ u \cap disengaged # {} /\ negCount >= 2
    \/ u \cap refusals # {}

\* InfoAdvisor.needs_info_retrieval
needs_info_retrieval(u) == u \cap question_indicators # {}

\* SchedulingAdvisor._classify_intent: result.strip().upper().replace(" ", "_").
\* A text is a sequence of space-separated words, a word a sequence of
\* underscore-separated atoms; the result is the sequence of upper-cased atoms.
Upper(a) ==
    CASE a = "request" -> "REQUEST" [] a = "availability" -> "AVAILABILITY"
      [] a = "propose" -> "PROPOSE" [] a = "time" -> "TIME"
      [] a = "confirm" -> "CONFIRM" [] a = "booking" -> "BOOKING"
      [] a = "other" -> "OTHER"
      [] a = "continue" -> "CONTINUE" [] a = "Schedule" -> "SCHEDULE"
      [] a = "end" -> "END" [] a = "think" -> "THINK"
      [] OTHER -> a

RECURSIVE Flatten(_)
Flatten(words) ==
    IF words = <<>> THEN <<>> ELSE Head(words) \o Flatten(Tail(words))

classify_intent(raw) ==
    IF raw.fails THEN <<"OTHER">>
    ELSE LET atoms == Flatten(raw.text)
         IN [i \in 1..Len(atoms) |-> Upper(atoms[i])]

REQUEST_AVAILABILITY == <<"REQUEST", "AVAILABILITY">>
PROPOSE_TIME == <<"PROPOSE", "TIME">>
CONFIRM_BOOKING == <<"CONFIRM", "BOOKING">>

IntentOutputs ==
    {[fails |-> TRUE, text |-> <<>>]} \cup
    {[fails |-> FALSE, text |-> t] : t \in {
        << <<"REQUEST", "AVAILABILITY">> >>,
        << <<"PROPOSE", "TIME">> >>,
        << <<"CONFIRM", "BOOKING">> >>,
        << <<"OTHER">> >>,
        << <<"confirm">>, <<"booking">> >>,
        << <<"I">>, <<"THINK">>, <<"PROPOSE", "TIME">> >> }}

\* the branch of SchedulingAdvisor.handle_scheduling taken for an intent
IntentBranch(intent) ==
    IF intent = REQUEST_AVAILABILITY THEN "REQUEST_AVAILABILITY"
    ELSE IF intent = PROPOSE_TIME THEN "PROPOSE_TIME"
    ELSE IF intent = CONFIRM_BOOKING THEN "CONFIRM_BOOKING"
    ELSE "OTHER"

\* response.strip().upper() in decide_action and evaluate: the upper-cased
\* atoms of the text
UpperText(text) ==
    LET atoms == Flatten(text)
    IN [i \in 1..Len(atoms) |-> Upper(atoms[i])]

\* Python's `label in action` on strings: the atoms of the label occur
\* contiguously in the atoms of the action
Contains(atoms, label) ==
    \E i \in 1..(Len(atoms) - Len(label) + 1) :
        SubSeq(atoms, i, i + Len(label) - 1) = label

\* the answer of the LLM as decide_action and evaluate test it: the call
\* returned, and these labels occur in the upper-cased response
Answer(text, labels) ==
    [fails |-> FALSE,
     labels |-> {l \in labels : Contains(UpperText(text), <<l>>)}]

NoLabel == [classifier |-> "none", text |-> <<>>, label |-> "none"]

NoValidation == [phrases |-> {}, lead |-> "none", prior |-> <<>>,
                 count0 |-> 0, count |-> 0, answers |-> <<>>,
                 tentative |-> "none", matched |-> FALSE, exit2 |-> "none",
                 final |-> "none"]

NoRank == [target |-> None, position |-> "none", limit |-> 0, slots |-> <<>>,
           called |-> FALSE]

\* The answer of the function-calling LLM in _handle_availability_request
\* (tool_choice="auto" over all of SCHEDULING_TOOLS): the call raises, it
\* returns no tool call, or a tool call with a name and arguments.
NoSlot == <<None, None, "none">>
ToolAnswers ==
    {[kind |-> "fails", name |-> "none", key |-> NoSlot, limit |-> 0],
     [kind |-> "no_call", name |-> "none", key |-> NoSlot, limit |-> 0],
     [kind |-> "call", name |-> "bad", key |-> NoSlot, limit |-> 0]} \cup
    {[kind |-> "call", name |-> "get_available_slots",
      key |-> <<d, None, p>>, limit |-> l] :
        d \in {None, MaxDate}, p \in Positions, l \in {1, DefaultLimit}} \cup
    {[kind |-> "call", name |-> "get_slots_near_date",
      key |-> <<d, None, DefaultPosition>>, limit |-> DefaultLimit] : d \in Dates} \cup
    {[kind |-> "call", name |-> n, key |-> k, limit |-> 0] :
        n \in {"check_slot_availability", "book_slot"}, k \in SlotKeys}


\* ============================================== SchedulingAdvisor._parse_datetime
\* Dates are day numbers: day 0 is Monday 2024-06-10, Today is day 1.

\* datetime.weekday(): Monday is 0
weekday(d) == d % 7

\* strftime('%Y-%m-%d') of day d, as <<year, month, day>>
strftime(d) ==
    LET n == 10 + d
    IN IF n <= 30 THEN <<2024, 6, n>>
       ELSE IF n <= 61 THEN <<2024, 7, n - 30>>
       ELSE <<2024, 8, n - 61>>

\* day_names, and the order in which the dict is iterated
day_names == [sunday |-> 6, monday |-> 0, tuesday |-> 1, wednesday |-> 2,
              thursday |-> 3, friday |-> 4, saturday |-> 5]
DayOrder == <<"sunday", "monday", "tuesday", "wednesday", "thursday",
              "friday", "saturday">>

\* a reference_date string that datetime.fromisoformat rejects
Malformed == -2

\* lines 233-240: the reference date the relative dates are computed from
ReferenceDate(reference_date, today) ==
    IF reference_date = None \/ reference_date = Malformed THEN today
    ELSE reference_date

\* mutant: a weekday name equal to the reference weekday resolves to the
\* reference day itself (days_ahead < 0 instead of <= 0)
parse_date_same_day(words, ref) ==
    IF "tomorrow" \in words THEN ref + 1
    ELSE LET found == {i \in 1..7 : DayOrder[i] \in words}
         IN IF found = {} THEN None
            ELSE LET first == CHOOSE i \in found : \A j \in found : i <= j
                     d0 == day_names[DayOrder[first]] - weekday(ref)
                     d1 == IF d0 < 0 THEN d0 + 7 ELSE d0
                 IN ref + (IF "next" \in words THEN d1 + 7 ELSE d1)

\* lines 248-273: the target date for a text containing the words `words`
\* (of "tomorrow", "next" and the weekday names), or None
parse_date(words, ref) ==
    IF "tomorrow" \in words THEN ref + 1
    ELSE LET found == {i \in 1..7 : DayOrder[i] \in words}
         IN IF found = {} THEN None
            ELSE LET first == CHOOSE i \in found : \A j \in found : i <= j
                     d0 == day_names[DayOrder[first]] - weekday(ref)
                     d1 == IF d0 <= 0 THEN d0 + 7 ELSE d0
                 IN ref + (IF "next" \in words THEN d1 + 7 ELSE d1)

\* The first match of time_pattern in the text: hour is int(group(1)), minute
\* the two digits of group(2) or <<>>, period group(3) or "none"; NoClock when
\* the text has no digit.
NoClock == [hour |-> None, minute |-> <<>>, period |-> "none"]

\* no _parse_datetime call has completed
NoParse == [words |-> {}, clock |-> NoClock, start |-> None, timestamp |-> None,
            today |-> None, date |-> <<>>, time |-> <<>>, called |-> FALSE]

\* f"{hour:02d}"
TwoDigits(n) == <<n \div 10, n % 10>>

\* mutant: without the "12 am is midnight" branch
parse_time_no_midnight(tok) ==
    IF tok = NoClock THEN <<>>
    ELSE LET hour == IF tok.period = "pm" /\ tok.hour < 12 THEN tok.hour + 12
                     ELSE tok.hour
             minute == IF tok.minute = <<>> THEN <<0, 0>> ELSE tok.minute
         IN TwoDigits(hour) \o minute

\* lines 279-290: target_time "HH:MM" as its four digits, or <<>> for None
parse_time(tok) ==
    IF tok = NoClock THEN <<>>
    ELSE LET hour == IF tok.period = "pm" /\ tok.hour < 12 THEN tok.hour + 12
                     ELSE IF tok.period = "am" /\ tok.hour = 12 THEN 0
                     ELSE tok.hour
             minute == IF tok.minute = <<>> THEN <<0, 0>> ELSE tok.minute
         IN TwoDigits(hour) \o minute

\* SchedulingAdvisor._parse_datetime: (date_str, target_time); date_str is
\* <<>> for None
parse_datetime(text, reference_date, today) ==
    LET target_date == parse_date(text.words, ReferenceDate(reference_date, today))
    IN [date |-> IF target_date = None THEN <<>> ELSE strftime(target_date),
        time |-> parse_time(text.clock)]

\* process_turn line 244: conversation_timestamp or self.conversation_start
Reference(conversation_timestamp, start) ==
    IF conversation_timestamp = None THEN start ELSE conversation_timestamp

\* ============================================================ RecruitmentBot

NoTurn == [complete0 |-> FALSE, tentative |-> "none", exit1 |-> "none", exit2 |-> "none",
           gate |-> FALSE, final |-> "none", info |-> FALSE, intent |-> "none",
           booked |-> FALSE, slot |-> NoSlot, proposal |-> <<None, None>>,
           history |-> <<>>, vfailed |-> {},
           failed |-> {}, outcome |-> "none", action |-> "none", response |-> "none"]

\* process_turn returns (response, action), or raises
Commit(booked, S, succ, rec) ==
    /\ is_interview_booked' = booked
    /\ Schedule' = S
    /\ successes' = succ
    /\ pc' = "idle"
    /\ cur' = NoTurn
    /\ turn' = rec
    /\ conflict' = (conflict \/ (rec.response = "slot_taken" /\ succ[rec.slot] >= 1))
    /\ UNCHANGED <<conversation_start, callervars, purevars>>

Return(S, succ, rec, resp) ==
    Commit(is_interview_booked, S, succ,
           [rec EXCEPT !.outcome = "returned", !.response = resp,
                       !.action = rec.final])

\* mutant: the dispatch without "if self.is_interview_booked: action = END"
SchedReturnNoEnd(S, succ, rec, resp, booked) ==
    Commit(booked, S, succ,
           [rec EXCEPT !.outcome = "returned", !.response = resp,
                       !.booked = booked, !.action = "SCHEDULE"])

\* lines 243-247: the SCHEDULE dispatch after handle_scheduling returned
SchedReturn(S, succ, rec, resp, booked) ==
    Commit(booked, S, succ,
           [rec EXCEPT !.outcome = "returned", !.response = resp,
                       !.booked = booked,
                       !.action = IF booked THEN "END" ELSE "SCHEDULE"])

\* an exception leaves handle_scheduling and process_turn
SchedRaise(S, succ, rec) ==
    Commit(is_interview_booked, S, succ,
           [rec EXCEPT !.outcome = "raised", !.failed = @ \cup {"store"}])

\* the call is between the check and the UPDATE of book_slot
Suspend(where, rec) ==
    /\ pc' = where
    /\ cur' = rec
    /\ UNCHANGED <<Schedule, successes, is_interview_booked, conversation_start, turn, conflict,
                   callervars, purevars>>

\* the except branch of _handle_availability_request (lines 133-139)
AvailabilityFallback(S, succ, rec) ==
    \E storeFails \in BOOLEAN :
        IF storeFails THEN SchedRaise(S, succ, rec)
        ELSE LET slots == get_available_slots(S, None, DefaultPosition, DefaultLimit)
             IN SchedReturn(S, succ, rec,
                    IF slots # <<>> THEN "fallback_offer" ELSE "ask_days", FALSE)

\* SchedulingAdvisor._handle_availability_request
handle_availability_request(rec) ==
    \E tc \in ToolAnswers :
        CASE tc.kind = "fails" ->
               AvailabilityFallback(Schedule, successes,
                                    [rec EXCEPT !.failed = @ \cup {"tool_llm"}])
          [] tc.kind = "no_call" ->
               SchedReturn(Schedule, successes, rec, "ask_weekday", FALSE)
          [] tc.kind = "call" /\ tc.name = "bad" ->
               AvailabilityFallback(Schedule, successes, rec)
          [] tc.kind = "call" /\ tc.name = "get_available_slots" ->
               \E storeFails \in BOOLEAN :
                   IF storeFails
                   THEN AvailabilityFallback(Schedule, successes,
                            [rec EXCEPT !.failed = @ \cup {"store"}])
                   ELSE LET slots == get_available_slots(Schedule, tc.key[1],
                                                         tc.key[3], tc.limit)
                        IN SchedReturn(Schedule, successes, rec,
                               IF slots # <<>> THEN "slots_offer" ELSE "busy_human",
                               FALSE)
          [] tc.kind = "call" /\ tc.name = "get_slots_near_date" ->
               \E storeFails \in BOOLEAN :
                   IF storeFails
                   THEN AvailabilityFallback(Schedule, successes,
                            [rec EXCEPT !.failed = @ \cup {"store"}])
                   ELSE LET slots == get_slots_near_date(Schedule, tc.key[1],
                                                         tc.key[3], tc.limit)
                        IN SchedReturn(Schedule, successes, rec,
                               IF slots # <<>> THEN "slots_offer" ELSE "busy_human",
                               FALSE)
          [] tc.kind = "call" /\ tc.name = "check_slot_availability" ->
               \E storeFails \in BOOLEAN :
                   IF storeFails
                   THEN AvailabilityFallback(Schedule, successes,
                            [rec EXCEPT !.failed = @ \cup {"store"}])
                   ELSE IF check_slot_availability(Schedule, tc.key)
                        \* iterating over True raises TypeError
                        THEN AvailabilityFallback(Schedule, successes, rec)
                        ELSE SchedReturn(Schedule, successes, rec,
                                         "busy_human", FALSE)
          [] tc.kind = "call" /\ tc.name = "book_slot" ->
               \E storeFails \in BOOLEAN :
                   IF storeFails
                   THEN AvailabilityFallback(Schedule, successes,
                            [rec EXCEPT !.failed = @ \cup {"store"}])
                   ELSE IF check_slot_availability(Schedule, tc.key)
                        THEN Suspend("tool_book_write", [rec EXCEPT !.slot = tc.key])
                        \* the result dict is not a list of slots: TypeError
                        ELSE AvailabilityFallback(Schedule, successes, rec)

\* SchedulingAdvisor._handle_time_proposal; (pd, pt) is what _parse_datetime
\* resolved from the utterance
handle_time_proposal(rec) ==
    \E pd \in Dates \cup {None}, pt \in Times \cup {None} :
        LET r == [rec EXCEPT !.proposal = <<pd, pt>>]
        IN IF pd = None \/ pt = None
           THEN SchedReturn(Schedule, successes, r, "clarify", FALSE)
           ELSE \E llm \in {"fails", "no_call", "call"} :
               CASE llm = "fails" ->
                      SchedReturn(Schedule, successes,
                                  [r EXCEPT !.failed = @ \cup {"tool_llm"}],
                                  "clarify", FALSE)
                 [] llm = "no_call" ->
                      SchedReturn(Schedule, successes, r, "clarify", FALSE)
                 [] llm = "call" ->
                      \E storeFails \in BOOLEAN :
                          IF storeFails
                          THEN SchedReturn(Schedule, successes,
                                   [r EXCEPT !.failed = @ \cup {"store"}],
                                   "clarify", FALSE)
                          ELSE IF check_slot_availability(Schedule,
                                       <<pd, pt, DefaultPosition>>)
                          THEN SchedReturn(Schedule, successes, r,
                                           "offer_to_book", FALSE)
                          ELSE LET alt == get_slots_near_date(Schedule, pd,
                                               DefaultPosition, DefaultLimit)
                               IN SchedReturn(Schedule, successes, r,
                                      IF alt # <<>> THEN "nearby" ELSE "suggest_another",
                                      FALSE)

\* The serialized history as _extract_last_proposed_slot reads it: the
\* sequence of its passages that name a date and a time, each <<date, time>>
\* when written as \d{4}-\d{2}-\d{2} at \d{2}:\d{2}, and <<None, None>> when
\* written otherwise (e.g. "Tuesday at 10am").
HistoryTokens == (Dates \X Times) \cup {<<None, None>>}
Histories == UNION {[1..n -> HistoryTokens] : n \in 0..MaxOffers}

\* date_pattern matches the passage
date_pattern(tok) == tok[1] # None /\ tok[2] # None

\* re.findall(date_pattern, history)
findall(history) == SelectSeq(history, date_pattern)

\* mutant: the first match instead of the last
extract_first_proposed_slot(history) ==
    LET matches == findall(history)
    IN IF matches # <<>> THEN matches[1] ELSE <<>>

\* SchedulingAdvisor._extract_last_proposed_slot; <<>> is None
extract_last_proposed_slot(history) ==
    LET matches == findall(history)
    IN IF matches # <<>> THEN matches[Len(matches)] ELSE <<>>

\* mutant: the failed booking is reported as a booking (True in both branches)
handle_booking_confirmation_always_true(rec) ==
    \E history \in Histories :
        LET last == extract_last_proposed_slot(history)
            h == [rec EXCEPT !.history = history]
        IN IF last = <<>>
           THEN SchedReturn(Schedule, successes, h, "which_slot", FALSE)
           ELSE LET k == <<last[1], last[2], DefaultPosition>>
                    r == [h EXCEPT !.slot = k]
                IN \E storeFails \in BOOLEAN :
                    IF storeFails THEN SchedRaise(Schedule, successes, r)
                    ELSE IF check_slot_availability(Schedule, k)
                    THEN Suspend("book_write", r)
                    ELSE SchedReturn(Schedule, successes, r, "slot_taken", TRUE)

\* SchedulingAdvisor._handle_booking_confirmation up to the availability check
\* of book_slot, on the history handed to process_turn
handle_booking_confirmation(rec) ==
    \E history \in Histories :
        LET last == extract_last_proposed_slot(history)
            h == [rec EXCEPT !.history = history]
        IN IF last = <<>>
           THEN SchedReturn(Schedule, successes, h, "which_slot", FALSE)
           ELSE LET k == <<last[1], last[2], DefaultPosition>>
                    r == [h EXCEPT !.slot = k]
                IN \E storeFails \in BOOLEAN :
                    IF storeFails THEN SchedRaise(Schedule, successes, r)
                    ELSE IF check_slot_availability(Schedule, k)
                    THEN Suspend("book_write", r)
                    ELSE SchedReturn(Schedule, successes, r, "slot_taken", FALSE)

\* SchedulingAdvisor._handle_general_inquiry
handle_general_inquiry(rec) ==
    \E storeFails \in BOOLEAN :
        IF storeFails THEN SchedRaise(Schedule, successes, rec)
        ELSE LET slots == get_available_slots(Schedule, None, DefaultPosition,
                                              DefaultLimit)
             IN SchedReturn(Schedule, successes, rec,
                    IF slots # <<>> THEN "general_offer" ELSE "general_ask", FALSE)

\* SchedulingAdvisor.handle_scheduling
handle_scheduling(rec) ==
    \E raw \in IntentOutputs :
        LET branch == IntentBranch(classify_intent(raw))
            r == [rec EXCEPT !.intent = branch,
                             !.failed = IF raw.fails THEN @ \cup {"intent_llm"} ELSE @]
        IN CASE branch = "REQUEST_AVAILABILITY" -> handle_availability_request(r)
             [] branch = "PROPOSE_TIME" -> handle_time_proposal(r)
             [] branch = "CONFIRM_BOOKING" -> handle_booking_confirmation(r)
             [] OTHER -> handle_general_inquiry(r)

\* InfoAdvisor.generate_response / RecruitmentBot._generate_screening_response;
\* info is the result of needs_info_retrieval(user_input)
ContinueResponse(info, llmFails) ==
    IF info
    THEN IF llmFails THEN "info_fallback" ELSE "info_reply"
    ELSE IF llmFails THEN "raw_error_text" ELSE "screening_reply"

\* ExitAdvisor.get_exit_message
get_exit_message(llmFails, booked) ==
    IF ~llmFails THEN "exit_message"
    ELSE IF booked THEN "exit_fallback_booked" ELSE "exit_fallback"

\* RecruitmentBot.process_turn, lines 234-257
Dispatch(rec) ==
    CASE rec.final = "CONTINUE" ->
           \E llmFails \in BOOLEAN :
               Return(Schedule, successes,
                      [rec EXCEPT !.failed = IF llmFails THEN {"reply_llm"} ELSE {}],
                      ContinueResponse(rec.info, llmFails))
      [] rec.final = "SCHEDULE" -> handle_scheduling(rec)
      [] rec.final = "END" ->
           \E llmFails \in BOOLEAN :
               Return(Schedule, successes,
                      [rec EXCEPT !.failed = IF llmFails THEN {"exit_llm"} ELSE {}],
                      get_exit_message(llmFails, is_interview_booked))
      [] OTHER -> Return(Schedule, successes, rec, "apology")

\* mutant: the validation layer without the screening gate (rule 3)
ValidateNoGate(u, tentative, v1, negCount, v2, booked, complete) ==
    LET a1 == IF tentative = "END" /\ ~should_exit(v1) /\ ~booked
              THEN "CONTINUE" ELSE tentative
    IN IF a1 = "CONTINUE" /\ is_disengaged(u, negCount) /\ should_exit(v2)
       THEN "END" ELSE a1

\* mutant: the validation layer without the END confirmation (rule 1)
ValidateNoConfirm(u, tentative, v1, negCount, v2, booked, complete) ==
    LET a2 == IF tentative = "CONTINUE" /\ is_disengaged(u, negCount) /\ should_exit(v2)
              THEN "END" ELSE tentative
    IN IF a2 = "SCHEDULE" /\ ~complete THEN "CONTINUE" ELSE a2

\* datetime.now() in __init__ and reset: a reading of the clock later than the
\* reading `last` (readings are numbered in the order they are taken)
now(last) == last + 1

\* the validation layer of process_turn, lines 217-232; v1 and v2 are the
\* answers of the two should_exit calls, complete is self.screening_complete
Validate(u, tentative, v1, negCount, v2, booked, complete) ==
    LET a1 == IF tentative = "END" /\ ~should_exit(v1) /\ ~booked
              THEN "CONTINUE" ELSE tentative
        a2 == IF a1 = "CONTINUE" /\ is_disengaged(u, negCount) /\ should_exit(v2)
              THEN "END" ELSE a1
    IN IF a2 = "SCHEDULE" /\ ~complete THEN "CONTINUE" ELSE a2

\* mutant: completion judged on the current utterance alone
update_screening_progress_per_turn(count, complete, u) ==
    <<count + ScreeningIncrement(u), ScreeningIncrement(u) >= 2>>

\* RecruitmentBot._update_screening_progress: the new (count, complete)
update_screening_progress(count, complete, u) ==
    LET n == count + ScreeningIncrement(u)
    IN <<n, IF n >= 2 THEN TRUE ELSE complete>>

NotAsked == [fails |-> TRUE, labels |-> {}]

\* The caller's side of the end-to-end scenario: 0 in a fresh conversation,
\* 1 after "I have 5 years with Django" was its first utterance, 2 after
\* "We use AWS and Docker" came next, 3 after a following turn for which the
\* primary classifier returned SCHEDULE, Off once the caller left the scenario.
Off == -1
ScenarioStep(step, u, tentative) ==
    IF step = 0 /\ u = {"year", "5", "django"} THEN 1
    ELSE IF step = 1 /\ u = {"aws", "docker"} THEN 2
    ELSE IF step = 2 /\ tentative = "SCHEDULE" THEN 3
    ELSE Off

\* RecruitmentBot.process_turn up to the end of the validation layer
\* (lines 209-232): the action to dispatch is decided
process_turn ==
    /\ pc = "idle" /\ turn = NoTurn
    /\ \E u \in Utterances, raw \in ActionOutputs :
        LET progress == update_screening_progress(screening_details_collected,
                                                  screening_complete, u)
            tentative == decide_action(raw)
            asked1 == tentative = "END"
        IN /\ progress[1] <= MaxDetails
           /\ screening_details_collected' = progress[1]
           /\ screening_complete' = progress[2]
           /\ scenario' = ScenarioStep(scenario, u, tentative)
           /\ \E v1 \in (IF asked1 THEN ExitOutputs ELSE {NotAsked}),
                 negCount \in (IF u \cap disengaged # {} THEN 0..2 ELSE {0}) :
              LET a1 == IF asked1 /\ ~should_exit(v1) /\ ~is_interview_booked
                        THEN "CONTINUE" ELSE tentative
                  asked2 == a1 = "CONTINUE" /\ is_disengaged(u, negCount)
              IN \E v2 \in (IF asked2 THEN ExitOutputs ELSE {NotAsked}) :
                 cur' = [NoTurn EXCEPT
                        !.complete0 = screening_complete,
                        !.tentative = tentative,
                        !.exit1 = IF asked1 THEN evaluate(v1) ELSE "none",
                        !.exit2 = IF asked2 THEN evaluate(v2) ELSE "none",
                        !.vfailed = (IF asked1 /\ v1.fails THEN {"exit1"} ELSE {})
                                    \cup (IF asked2 /\ v2.fails THEN {"exit2"} ELSE {}),
                        !.gate = progress[2],
                        !.info = needs_info_retrieval(u),
                        !.final = Validate(u, tentative, v1, negCount, v2,
                                           is_interview_booked, progress[2])]
    /\ pc' = "generate_response"
    /\ UNCHANGED <<Schedule, successes, is_interview_booked, conversation_start, turn, conflict,
                   callervars, purevars>>

\* RecruitmentBot.process_turn, the response generation (lines 234-257), up to
\* its return or to the UPDATE of a book_slot call
generate_response ==
    /\ pc = "generate_response" /\ turn = NoTurn
    /\ UNCHANGED <<screening_details_collected, screening_complete, scenario,
                   conversation_start>>
    /\ Dispatch(cur)

\* the UPDATE of book_slot in _handle_booking_confirmation, and its return
book_write ==
    /\ pc = "book_write" /\ turn = NoTurn
    /\ UNCHANGED <<screening_details_collected, screening_complete, scenario,
                   conversation_start>>
    /\ \E storeFails \in BOOLEAN :
        IF storeFails THEN SchedRaise(Schedule, successes, cur)
        ELSE SchedReturn(BookUpdate(Schedule, cur.slot),
                 [successes EXCEPT ![cur.slot] = @ + 1],
                 cur, "confirmed", TRUE)

\* the UPDATE of a book_slot tool call chosen by the LLM in
\* _handle_availability_request, and the rest of that handler
tool_book_write ==
    /\ pc = "tool_book_write" /\ turn = NoTurn
    /\ UNCHANGED <<screening_details_collected, screening_complete, scenario,
                   conversation_start>>
    /\ \E storeFails \in BOOLEAN :
        IF storeFails
        THEN AvailabilityFallback(Schedule, successes,
                 [cur EXCEPT !.failed = @ \cup {"store"}])
        ELSE AvailabilityFallback(BookUpdate(Schedule, cur.slot),
                 [successes EXCEPT ![cur.slot] = @ + 1], cur)

\* the caller takes (response, action) before its next call
\* (main.py: response, action = bot.process_turn(user_input, history))
take_result ==
    /\ turn # NoTurn
    /\ turn' = NoTurn
    /\ UNCHANGED <<Schedule, botvars, pc, cur, scenario, conflict, successes,
                   callervars, purevars>>

\* mutant: reset that forgets to clear is_interview_booked
reset_keeps_booking ==
    /\ pc = "idle" /\ turn = NoTurn
    /\ screening_details_collected' = 0
    /\ screening_complete' = FALSE
    /\ scenario' = 0
    /\ conflict' = FALSE
    /\ conversation_start < MaxClock
    /\ conversation_start' = now(conversation_start)
    /\ UNCHANGED <<is_interview_booked, Schedule, successes, pc, cur, turn,
                   callervars, purevars>>

\* mutant: reset that forgets to clear screening_complete
reset_keeps_complete ==
    /\ pc = "idle" /\ turn = NoTurn
    /\ conversation_start < MaxClock
    /\ conversation_start' = now(conversation_start)
    /\ is_interview_booked' = FALSE
    /\ screening_details_collected' = 0
    /\ scenario' = 0
    /\ conflict' = FALSE
    /\ UNCHANGED <<screening_complete, Schedule, successes, pc, cur, turn,
                   callervars, purevars>>

\* mutant: reset that keeps the conversation's anchor
reset_keeps_start ==
    /\ pc = "idle" /\ turn = NoTurn
    /\ is_interview_booked' = FALSE
    /\ screening_details_collected' = 0
    /\ screening_complete' = FALSE
    /\ scenario' = 0
    /\ conflict' = FALSE
    /\ UNCHANGED <<conversation_start, Schedule, successes, pc, cur, turn,
                   callervars, purevars>>

\* RecruitmentBot.reset
reset ==
    /\ pc = "idle" /\ turn = NoTurn
    /\ conversation_start < MaxClock
    /\ conversation_start' = now(conversation_start)
    /\ is_interview_booked' = FALSE
    /\ screening_details_collected' = 0
    /\ screening_complete' = FALSE
    /\ scenario' = 0
    /\ conflict' = FALSE
    /\ UNCHANGED <<Schedule, successes, pc, cur, turn, callervars, purevars>>

\* another conversation's successful book_slot on the shared table, at any
\* point of this conversation's turn: the booking of its own
\* _handle_booking_confirmation, which returns booked = True, or of a tool
\* call. It is one step: this conversation's own
\* book_slot is split at its UPDATE, so every interleaving of the two calls'
\* checks and updates leaves the table and the returns of a run in which the
\* other call is not interrupted.
other_book_slot ==
    /\ turn = NoTurn
    /\ \E k \in DOMAIN Schedule :
        /\ check_slot_availability(Schedule, k)
        /\ Schedule' = BookUpdate(Schedule, k)
        /\ successes' = [successes EXCEPT ![k] = @ + 1]
    /\ UNCHANGED <<botvars, pc, cur, turn, scenario, conflict, callervars, purevars>>

\* ============================================================ MongoDBManager

\* MongoDBManager._load_mock_data without availability.json: the generated
\* slots are dated after today (range(1, 8)), for "Python Dev" and available
load_mock_data ==
    [k \in {x \in Dates \X Times \X {DefaultPosition} : x[1] > Today} |-> TRUE]

\* MongoDBManager.get_available_slots; useColl: self.collection is not None
\* and the query does not raise. The collection is sorted by date only; this
\* is the result when it returns documents of equal date in insertion order.
mongo_get_available_slots(coll, m, useColl, date, position, limit) ==
    IF useColl
    THEN LET rows == {k \in DOMAIN coll : coll[k] /\ k[3] = position /\
                         (IF date # None THEN k[1] = date ELSE k[1] >= Today)}
         IN Limit(OrderBy(rows, [k \in rows |-> k[1]]), limit)
    ELSE LET rows == {k \in DOMAIN m : m[k] /\ k[3] = position /\ k[1] >= Today /\
                         (date # None => k[1] = date)}
         IN Limit(OrderBy(rows, [k \in rows |-> DateTimeKey(k)]), limit)

\* collection.find(query).sort("date", 1).limit(limit) over the documents
\* `rows`: MongoDB leaves the order of documents with equal dates open, so
\* every list of min(limit, number of rows) distinct documents that ascends in
\* date and leaves no earlier-dated document out is a possible result
mongo_find_sort_date(rows, limit) ==
    LET n == IF Cardinality(rows) < limit THEN Cardinality(rows) ELSE limit
    IN {s \in [1..n -> rows] :
          /\ \A i, j \in 1..n : i < j => s[i] # s[j] /\ s[i][1] <= s[j][1]
          /\ \A k \in rows \ SeqRange(s), i \in 1..n : s[i][1] <= k[1]}

\* the possible results of MongoDBManager.get_available_slots
mongo_available_results(coll, m, useColl, date, position, limit) ==
    IF useColl
    THEN mongo_find_sort_date(
             {k \in DOMAIN coll : coll[k] /\ k[3] = position /\
                 (IF date # None THEN k[1] = date ELSE k[1] >= Today)}, limit)
    ELSE {mongo_get_available_slots(coll, m, FALSE, date, position, limit)}

\* MongoDBManager.check_slot_availability
mongo_check_slot_availability(coll, m, useColl, k) ==
    IF useColl THEN k \in DOMAIN coll /\ coll[k]
    ELSE k \in DOMAIN m /\ m[k]

\* MongoDBManager.get_slots_near_date
mongo_get_slots_near_date(coll, m, useColl, target, position, limit) ==
    IF useColl
    THEN LET rows == {k \in DOMAIN coll : coll[k] /\ k[3] = position}
             first == Limit(OrderBy(rows, [k \in rows |-> k[1]]), limit * 3)
             cand == SeqRange(first)
         IN Limit(OrderBy(cand, [k \in cand |-> Abs(k[1] - target)]), limit)
    ELSE LET rows == {k \in DOMAIN m : m[k] /\ k[3] = position}
         IN Limit(OrderBy(rows, [k \in rows |-> Abs(k[1] - target)]), limit)

\* ======================================== callers of the store operations
\* Two callers call the four store operations of the deployed backend. Under
\* a MongoDB backend caller "t1" holds a MongoDBManager (SchedulingAdvisor's
\* self.db) and caller "t2" calls through execute_function_call, which
\* constructs a fresh MongoDBManager for every call (db_manager.py line 259).
Callers == {"t1", "t2"}
\* rows of the store: the seeded ones, a past one and one of another position
StoreKeys == SeededKeys \cup {<<0, FirstHour, DefaultPosition>>,
                              <<MaxDate, FirstHour, "Sql Dev">>}
Fresh(t) == t = "t2"

NoRet == [caller |-> "none", op |-> "none", key |-> NoSlot, limit |-> 0,
          fresh |-> FALSE, slots |-> <<>>, ok |-> FALSE]

Done(t, ret) ==
    /\ sret' = ret
    /\ tpc' = [tpc EXCEPT ![t] = "idle"]
    /\ tkey' = [tkey EXCEPT ![t] = NoSlot]

Mongo == backend \in {"mongo", "mongo_mock"}
hasColl == backend = "mongo"

\* the _mock_data a call works on: the caller's instance, or a fresh instance
MockOf(t, fresh) == IF fresh THEN load_mock_data ELSE mock

\* get_available_slots(date, position, limit) by caller t
call_get_available_slots(t) ==
    /\ tpc[t] = "idle" /\ sret = NoRet
    /\ \E date \in Dates \cup {None}, position \in Positions,
          limit \in {1, DefaultLimit}, fresh \in {Fresh(t)}, raises \in BOOLEAN :
        /\ ~Mongo => ~raises
        /\ backend = "mongo_mock" => ~raises
        /\ Done(t, [NoRet EXCEPT !.caller = t, !.op = "get_available_slots",
                     !.key = <<date, None, position>>, !.limit = limit,
                     !.fresh = fresh,
                     !.slots = IF Mongo
                               THEN mongo_get_available_slots(collection,
                                        MockOf(t, fresh), hasColl /\ ~raises,
                                        date, position, limit)
                               ELSE get_available_slots(Schedule, date,
                                        position, limit)])
    /\ UNCHANGED <<Schedule, successes, convvars, purevars, backend, collection, mock>>

\* get_slots_near_date(target_date, position, limit) by caller t
call_get_slots_near_date(t) ==
    /\ tpc[t] = "idle" /\ sret = NoRet
    /\ \E date \in Dates, position \in Positions, fresh \in {Fresh(t)},
          raises \in BOOLEAN :
        /\ ~Mongo => ~raises
        /\ backend = "mongo_mock" => ~raises
        /\ Done(t, [NoRet EXCEPT !.caller = t, !.op = "get_slots_near_date",
                     !.key = <<date, None, position>>, !.limit = DefaultLimit,
                     !.fresh = fresh,
                     !.slots = IF Mongo
                               THEN mongo_get_slots_near_date(collection,
                                        MockOf(t, fresh), hasColl /\ ~raises,
                                        date, position, DefaultLimit)
                               ELSE get_slots_near_date(Schedule, date,
                                        position, DefaultLimit)])
    /\ UNCHANGED <<Schedule, successes, convvars, purevars, backend, collection, mock>>

\* the availability of key k as seen by a call of caller t
Available(t, k, fresh, raises) ==
    IF Mongo
    THEN mongo_check_slot_availability(collection, MockOf(t, fresh),
                                       hasColl /\ ~raises, k)
    ELSE check_slot_availability(Schedule, k)

\* check_slot_availability(date, time, position) by caller t
call_check_slot_availability(t) ==
    /\ tpc[t] = "idle" /\ sret = NoRet
    /\ \E k \in StoreKeys, fresh \in {Fresh(t)}, raises \in BOOLEAN :
        /\ ~Mongo => ~raises
        /\ backend = "mongo_mock" => ~raises
        /\ Done(t, [NoRet EXCEPT !.caller = t, !.op = "check_slot_availability",
                     !.key = k, !.fresh = fresh,
                     !.ok = Available(t, k, fresh, raises)])
    /\ UNCHANGED <<Schedule, successes, convvars, purevars, backend, collection, mock>>

\* book_slot, first half: the availability check (database.py line 80,
\* db_manager.py line 127)
call_book_slot_check(t) ==
    /\ tpc[t] = "idle" /\ sret = NoRet
    /\ \E k \in StoreKeys, fresh \in {Fresh(t)}, raises \in BOOLEAN :
        /\ ~Mongo => ~raises
        /\ backend = "mongo_mock" => ~raises
        /\ IF Available(t, k, fresh, raises)
           THEN /\ tpc' = [tpc EXCEPT ![t] = "write"]
                /\ tkey' = [tkey EXCEPT ![t] = k]
                /\ UNCHANGED sret
           ELSE Done(t, [NoRet EXCEPT !.caller = t, !.op = "book_slot",
                          !.key = k, !.fresh = fresh, !.ok = FALSE])
    /\ UNCHANGED <<Schedule, successes, convvars, purevars, backend, collection, mock>>

\* book_slot, second half: the write and the returned result
\* (database.py lines 83-96, db_manager.py lines 130-154)
call_book_slot_write(t) ==
    /\ tpc[t] = "write" /\ sret = NoRet
    /\ successes[tkey[t]] < MaxBookings
    /\ LET k == tkey[t]
           fresh == Fresh(t)
           ret == [NoRet EXCEPT !.caller = t, !.op = "book_slot", !.key = k,
                                !.fresh = fresh]
       IN \E raises \in BOOLEAN :
           /\ ~hasColl => ~raises
           /\ IF ~Mongo
              THEN /\ Schedule' = BookUpdate(Schedule, k)
                   /\ UNCHANGED <<collection, mock>>
                   /\ successes' = [successes EXCEPT ![k] = @ + 1]
                   /\ Done(t, [ret EXCEPT !.ok = TRUE])
              ELSE IF hasColl /\ ~raises
              THEN /\ collection' = BookUpdate(collection, k)
                   /\ UNCHANGED <<Schedule, mock>>
                   /\ successes' = [successes EXCEPT ![k] = @ + 1]
                   /\ Done(t, [ret EXCEPT !.ok = TRUE])
              ELSE IF k \in DOMAIN MockOf(t, fresh)
              THEN /\ mock' = IF fresh THEN mock ELSE BookUpdate(mock, k)
                   /\ UNCHANGED <<Schedule, collection>>
                   /\ successes' = [successes EXCEPT ![k] = @ + 1]
                   /\ Done(t, [ret EXCEPT !.ok = TRUE])
              ELSE /\ UNCHANGED <<Schedule, collection, mock, successes>>
                   /\ Done(t, ret)
    /\ UNCHANGED <<convvars, purevars, backend>>

\* the caller takes the result of its call
take_store_result ==
    /\ sret # NoRet
    /\ sret' = NoRet
    /\ UNCHANGED <<Schedule, successes, convvars, purevars, backend, collection, mock,
                   tpc, tkey>>

NoCallers ==
    /\ tpc = [t \in Callers |-> "idle"]
    /\ tkey = [t \in Callers |-> NoSlot]
    /\ sret = NoRet
    /\ parsed = NoParse
    /\ classified = NoLabel
    /\ ranked = NoRank
    /\ validated = NoValidation

NoConversation ==
    /\ screening_details_collected = 0
    /\ screening_complete = FALSE
    /\ is_interview_booked = FALSE
    /\ pc = "idle"
    /\ cur = NoTurn
    /\ turn = NoTurn
    /\ scenario = 0
    /\ conflict = FALSE
    /\ conversation_start = 0

\* RecruitmentBot.__init__; the Schedule table as seeded by init_database
\* (random availability), here for the default position
Init ==
    /\ Schedule \in [SeededKeys -> BOOLEAN]
    /\ successes = [k \in SlotKeys |-> 0]
    /\ NoConversation
    /\ backend = "sqlite"
    /\ collection = <<>>
    /\ mock = <<>>
    /\ NoCallers

Next ==
    \/ process_turn
    \/ generate_response
    \/ book_write
    \/ tool_book_write
    \/ take_result
    \/ reset
    \/ other_book_slot

Spec == Init /\ [][Next]_vars

\* The store after initialization, under each backend: the SQLite table
\* seeded by init_database, or the MongoDB collection with one MongoDBManager
\* (and its _mock_data) per caller.
InitStore ==
    /\ backend \in {"sqlite", "mongo", "mongo_mock"}
    /\ IF backend = "sqlite"
       THEN /\ Schedule \in [StoreKeys -> BOOLEAN]
            /\ collection = <<>>
            /\ mock = <<>>
       ELSE /\ Schedule = <<>>
            \* the collection as seeded: the past slot is taken
            /\ collection = IF backend = "mongo"
                            THEN [k \in StoreKeys |-> k[1] >= Today]
                            ELSE <<>>
            /\ mock = load_mock_data
    /\ successes = [k \in SlotKeys |-> 0]
    /\ NoConversation
    /\ NoCallers

NextStore ==
    \/ \E t \in Callers :
        \/ call_get_available_slots(t)
        \/ call_get_slots_near_date(t)
        \/ call_check_slot_availability(t)
        \/ call_book_slot_check(t)
        \/ call_book_slot_write(t)
    \/ take_store_result

SpecStore == InitStore /\ [][NextStore]_vars


\* ===================================== callers of the date and time resolver
\* A PROPOSE_TIME turn hands the utterance and the reference time to
\* _parse_datetime (process_turn line 244, handle_scheduling line 59,
\* _handle_time_proposal line 149).
MaxRef == 6             \* reference dates and clock dates are 0..MaxRef

RefDates == 0..MaxRef
DayNames == {DayOrder[i] : i \in 1..7}
\* the texts: any of "tomorrow" and "next" with at most two weekday names
WordSets ==
    {m \cup ds : m \in SUBSET {"tomorrow", "next"},
                 ds \in {x \in SUBSET DayNames : Cardinality(x) <= 2}}
ClockTokens ==
    {[hour |-> h, minute |-> m, period |-> p] :
        h \in 0..99, m \in {<<>>, <<0, 0>>, <<3, 0>>, <<5, 9>>, <<6, 0>>, <<9, 9>>},
        p \in {"none", "am", "pm"}}
Tuesday10am == [hour |-> 10, minute |-> <<>>, period |-> "am"]

\* one resolution: the conversation started on day start, the caller passes
\* conversation_timestamp, the turn happens on day today
call_parse_datetime ==
    /\ parsed = NoParse
    /\ \E start \in RefDates, today \in RefDates,
          timestamp \in {None, Malformed} \cup RefDates,
          text \in {[words |-> w, clock |-> c] : w \in WordSets,
                                                 c \in {NoClock, Tuesday10am}}
               \cup {[words |-> {}, clock |-> c] : c \in ClockTokens} :
        /\ start <= today
        /\ text.words = {} => start = 0 /\ today = 0 /\ timestamp = None
        /\ LET r == parse_datetime(text, Reference(timestamp, start), today)
           IN parsed' = [words |-> text.words, clock |-> text.clock,
                         start |-> start, timestamp |-> timestamp,
                         today |-> today, date |-> r.date, time |-> r.time,
                         called |-> TRUE]
    /\ UNCHANGED <<Schedule, successes, convvars, callervars, classified, ranked, validated>>

\* the caller takes (date_str, target_time)
take_parsed ==
    /\ parsed # NoParse
    /\ parsed' = NoParse
    /\ UNCHANGED <<Schedule, successes, convvars, callervars, classified, ranked, validated>>

InitResolver ==
    /\ Schedule = <<>>
    /\ successes = [k \in SlotKeys |-> 0]
    /\ NoConversation
    /\ backend = "sqlite"
    /\ collection = <<>>
    /\ mock = <<>>
    /\ NoCallers

NextResolver ==
    \/ call_parse_datetime
    \/ take_parsed

SpecResolver == InitResolver /\ [][NextResolver]_vars

\* ================================================== callers of the classifiers
\* process_turn hands the raw output of the LLM to MainAgent.decide_action
\* (line 215) and to ExitAdvisor.evaluate (lines 221, 225); handle_scheduling
\* hands it to _classify_intent (line 53).
MaxWords == 3           \* a raw output has 1..MaxWords words

RawWords ==
    {<<"CONTINUE">>, <<"continue">>, <<"SCHEDULE">>, <<"Schedule">>,
     <<"END">>, <<"end">>, <<"I">>, <<"think">>,
     <<"PROPOSE", "TIME">>, <<"propose", "time">>,
     <<"REQUEST", "AVAILABILITY">>, <<"confirm">>, <<"booking">>, <<"OTHER">>}
RawTexts == UNION {[1..n -> RawWords] : n \in 1..MaxWords}

call_decide_action ==
    /\ classified = NoLabel
    /\ \E text \in RawTexts :
        classified' =
            [classifier |-> "decide_action", text |-> text,
             label |-> decide_action(Answer(text, {"CONTINUE", "SCHEDULE", "END"}))]
    /\ UNCHANGED <<Schedule, successes, convvars, callervars, parsed, ranked, validated>>

call_evaluate ==
    /\ classified = NoLabel
    /\ \E text \in RawTexts :
        classified' =
            [classifier |-> "evaluate", text |-> text,
             label |-> evaluate(Answer(text, {"END"}))]
    /\ UNCHANGED <<Schedule, successes, convvars, callervars, parsed, ranked, validated>>

call_classify_intent ==
    /\ classified = NoLabel
    /\ \E text \in RawTexts :
        classified' =
            [classifier |-> "classify_intent", text |-> text,
             label |-> IntentBranch(classify_intent([fails |-> FALSE,
                                                     text |-> text]))]
    /\ UNCHANGED <<Schedule, successes, convvars, callervars, parsed, ranked, validated>>

\* the caller takes the label
take_label ==
    /\ classified # NoLabel
    /\ classified' = NoLabel
    /\ UNCHANGED <<Schedule, successes, convvars, callervars, parsed, ranked, validated>>

NextClassifier ==
    \/ call_decide_action
    \/ call_evaluate
    \/ call_classify_intent
    \/ take_label

SpecClassifier == InitResolver /\ [][NextClassifier]_vars

\* ============================================ callers of the near-date search
\* _handle_time_proposal (line 180) and execute_function_call (line 200) call
\* get_slots_near_date of the deployed store. The store holds two times of day
\* on each date, and one slot of another position.
RankDates == 0..(MaxDate + 1)
RankTimes == {FirstHour, FirstHour + 1}
RankKeys == (RankDates \X RankTimes \X {DefaultPosition})
                \cup {<<0, FirstHour, "Sql Dev">>}

\* the store with any of its slots available: the SQLite table, the MongoDB
\* collection, or the _mock_data of a MongoDBManager without a collection
InitRank ==
    /\ backend \in {"sqlite", "mongo", "mongo_mock"}
    /\ \E S \in [RankKeys -> BOOLEAN] :
        /\ Schedule = IF backend = "sqlite" THEN S ELSE <<>>
        /\ collection = IF backend = "mongo" THEN S ELSE <<>>
        /\ mock = IF backend = "mongo_mock" THEN S
                  ELSE IF backend = "mongo" THEN load_mock_data ELSE <<>>
    /\ successes = [k \in SlotKeys |-> 0]
    /\ NoConversation
    /\ NoCallers

\* get_slots_near_date(target_date, position, limit); no query raises
call_rank ==
    /\ ranked = NoRank /\ sret = NoRet
    /\ \E target \in RankDates, position \in {DefaultPosition, "Sql Dev"},
          limit \in {1, DefaultLimit} :
        ranked' = [target |-> target, position |-> position, limit |-> limit,
                   slots |-> IF Mongo
                             THEN mongo_get_slots_near_date(collection, mock,
                                      hasColl, target, position, limit)
                             ELSE get_slots_near_date(Schedule, target,
                                                      position, limit),
                   called |-> TRUE]
    /\ UNCHANGED <<Schedule, successes, convvars, callervars, parsed, classified, validated>>

\* the caller takes the list of slots
take_ranked ==
    /\ ranked # NoRank
    /\ ranked' = NoRank
    /\ UNCHANGED <<Schedule, successes, convvars, callervars, parsed, classified, validated>>

\* get_available_slots(position=position, limit=limit), no date filter
call_available ==
    /\ ranked = NoRank /\ sret = NoRet
    /\ \E position \in {DefaultPosition, "Sql Dev"}, limit \in {1, DefaultLimit} :
        \E slots \in (IF Mongo
                       THEN mongo_available_results(collection, mock, hasColl,
                                                    None, position, limit)
                       ELSE {get_available_slots(Schedule, None, position, limit)}) :
            sret' = [NoRet EXCEPT !.op = "get_available_slots",
                                  !.key = <<None, None, position>>,
                                  !.limit = limit, !.slots = slots]
    /\ UNCHANGED <<Schedule, successes, convvars, purevars, backend, collection, mock,
                   tpc, tkey>>

NextRank ==
    \/ call_rank
    \/ take_ranked
    \/ call_available
    \/ take_store_result

SpecRank == InitRank /\ [][NextRank]_vars

\* =========================================== callers of the validation layer

\* How a participant line of the history begins after "Candidate: ": with
\* "nope", with "no" but not "nope" ("no", "not ...", "nobody ..."), or with
\* anything else.
Leads == {"no", "nope", "other"}

MaxPrior == 2           \* the history holds 0..MaxPrior participant lines

\* The participant lines the caller has appended to the history before the
\* current turn, oldest first, each by the way it begins.
PriorTurns == UNION {[1..n -> Leads] : n \in 0..MaxPrior}

\* An utterance with the way it begins: a text that begins with "no" or with
\* "nope" contains it.
LeadUtterances ==
    {x \in [phrases : Utterances \cup {{"nope", "no"}}, lead : Leads] :
        x.lead # "other" => x.lead \in x.phrases}

\* the occurrences of 'candidate: no' and of 'candidate: nope' in one
\* lower-cased participant line: a line that begins with "nope" has one of each
line_count(lead) ==
    (IF lead \in {"no", "nope"} THEN 1 ELSE 0) + (IF lead = "nope" THEN 1 ELSE 0)

RECURSIVE history_count(_)
history_count(lines) ==
    IF lines = <<>> THEN 0 ELSE line_count(Head(lines)) + history_count(Tail(lines))

\* neg_count of _is_disengaged on current_history, which is the caller's
\* history followed by the line of the current utterance
neg_count(prior, lead) == history_count(Append(prior, lead))

\* process_turn up to the end of its validation layer (lines 209-232) on a
\* participant utterance, the caller's history, the answers of the classifiers
\* and a state of the conversation: count0 signals counted so far, the
\* interview booked or not
call_validate ==
    /\ validated = NoValidation
    /\ \E x \in LeadUtterances, prior \in PriorTurns, raw \in ActionOutputs,
          booked \in BOOLEAN, count0 \in 0..MaxDetails :
        LET progress == update_screening_progress(count0, count0 >= 2, x.phrases)
            complete == progress[2]
            tentative == decide_action(raw)
            asked1 == tentative = "END"
            negCount == neg_count(prior, x.lead)
        IN \E v1 \in (IF asked1 THEN ExitOutputs ELSE {NotAsked}) :
            LET a1 == IF asked1 /\ ~should_exit(v1) /\ ~booked
                      THEN "CONTINUE" ELSE tentative
                asked2 == a1 = "CONTINUE" /\ is_disengaged(x.phrases, negCount)
            IN \E v2 \in (IF asked2 THEN ExitOutputs ELSE {NotAsked}) :
                validated' =
                    [phrases |-> x.phrases, lead |-> x.lead, prior |-> prior,
                     count0 |-> count0, count |-> progress[1],
                     answers |-> <<raw, v1, v2>>,
                     tentative |-> tentative,
                     matched |-> is_disengaged(x.phrases, negCount),
                     exit2 |-> IF asked2 THEN evaluate(v2) ELSE "none",
                     final |-> Validate(x.phrases, tentative, v1, negCount, v2,
                                        booked, complete)]
    /\ UNCHANGED <<Schedule, successes, convvars, callervars, parsed, classified, ranked>>

\* the caller takes the validated action
take_validated ==
    /\ validated # NoValidation
    /\ validated' = NoValidation
    /\ UNCHANGED <<Schedule, successes, convvars, callervars, parsed, classified, ranked>>

NextValidate ==
    \/ call_validate
    \/ take_validated

SpecValidate == InitResolver /\ [][NextValidate]_vars

\* ==================================================================== claims

Actions == {"CONTINUE", "SCHEDULE", "END"}

\* C1: for a slot that is initially available, concurrent book_slot calls of
\* the SQLite DatabaseManager on the same (date, time, position) never both
\* return success.
C1_NoTwoSuccesses ==
    backend = "sqlite" => \A k \in SlotKeys : successes[k] <= 1

\* C2: the scheduling subsystem is invoked only while screening_complete is
\* true at dispatch, and a tentative SCHEDULE with screening incomplete (fewer
\* than 2 signals counted, the current utterance included) returns CONTINUE.
C2_ScreeningGate ==
    /\ cur.intent # "none" => cur.gate /\ screening_complete
    /\ turn.intent # "none" => turn.gate /\ screening_complete
    /\ turn.tentative = "SCHEDULE" /\ (~turn.gate \/ screening_details_collected < 2)
           => turn.action = "CONTINUE" /\ turn.intent = "none"

C2_Witness ==
    turn.tentative = "SCHEDULE" /\ ~turn.gate /\ turn.action = "CONTINUE"

\* C3: after any sequence of process_turn and reset calls,
\* is_interview_booked implies screening_complete.
C3_BookedImpliesScreened == is_interview_booked => screening_complete

C3_Witness == is_interview_booked /\ turn.booked /\ turn.action = "END"

\* C4 as stated: process_turn returns END only if the primary classifier
\* returned END and should_exit agreed, or an interview is booked.
C4_Original ==
    turn.action = "END" =>
        (turn.tentative = "END" /\ turn.exit1 = "END") \/ is_interview_booked

\* C4 amended: process_turn returns END only if a should_exit call of that
\* turn returned true (on a tentative END, or on a tentative CONTINUE matched
\* by the disengagement heuristic), or an interview is booked; a tentative END
\* refused by should_exit with no interview booked is returned as CONTINUE
\* unless the disengagement check asks should_exit again and it agrees.
C4_TwoSignalAgreement ==
    /\ turn.action = "END" =>
           turn.exit1 = "END" \/ turn.exit2 = "END" \/ is_interview_booked
    /\ turn.tentative = "END" /\ turn.exit1 = "CONTINUE" /\ ~is_interview_booked
           => \/ turn.action = "CONTINUE" /\ turn.exit2 # "END"
              \/ turn.action = "END" /\ turn.exit2 = "END"

C4_Witness ==
    turn.tentative = "END" /\ turn.exit1 = "CONTINUE" /\ ~is_interview_booked
    /\ turn.action = "CONTINUE"

\* C5: once the cumulative signal count reaches 2 screening_complete is true,
\* and it stays true through every later process_turn step; only reset makes
\* it false again.
C5_ScreeningMonotonic ==
    /\ [](screening_details_collected >= 2 => screening_complete)
    /\ [][screening_complete /\ ~reset => screening_complete']_vars

C5_Witness ==
    turn.complete0 /\ turn.outcome = "returned" /\ screening_complete

\* C6: after book_slot returned success for a slot, no later
\* get_available_slots result contains the slot and check_slot_availability
\* returns false for it, whichever caller asks.
C6_BookedSlotExcluded ==
    /\ sret.op = "get_available_slots" =>
           \A i \in 1..Len(sret.slots) : successes[sret.slots[i]] = 0
    /\ sret.op = "check_slot_availability" /\ sret.ok => successes[sret.key] = 0

\* the change a store operation made to one table / collection / mock list
FrameOf(S, T, ret) ==
    /\ DOMAIN T = DOMAIN S
    /\ \A k \in DOMAIN S :
           T[k] # S[k] =>
               /\ S[k] /\ ~T[k]
               /\ ret.op = "book_slot" /\ ret.ok /\ ret.key = k

\* C7: no store operation adds or deletes a slot or re-opens one; the only
\* change is a successful book_slot flipping the slot of its (date, time,
\* position) from available to unavailable, every other slot unchanged.
C7_StoreFrame ==
    [][/\ FrameOf(Schedule, Schedule', sret')
       /\ FrameOf(collection, collection', sret')
       /\ FrameOf(mock, mock', sret')]_vars

C7_Witness ==
    /\ sret.op = "book_slot" /\ sret.ok
    /\ \/ backend = "sqlite" /\ ~Schedule[sret.key]
       \/ backend = "mongo" /\ ~collection[sret.key]

\* C8: whenever handle_scheduling reports booked = True the call returns END
\* and is_interview_booked is true when it returns.
C8_BookingEndsTurn ==
    turn.booked => turn.action = "END" /\ is_interview_booked

C8_Witness == turn.booked /\ turn.response = "confirmed"

\* C9: the action returned by process_turn is always one of CONTINUE,
\* SCHEDULE, END, also when the primary classifier call fails.
C9_ActionIsLabel ==
    turn.outcome = "returned" => turn.action \in Actions

\* C10: when an external capability or the store fails during dispatch,
\* process_turn still returns, with a generic response (not the error text)
\* and the action decided before dispatch.
C10_NeverPropagates ==
    turn # NoTurn /\ turn.failed # {} =>
        /\ turn.outcome = "returned"
        /\ turn.response # "raw_error_text"
        /\ turn.action = turn.final

\* C11 as stated: from a fresh conversation, after "I have 5 years with
\* Django" the count is 1 and screening_complete is false, after "We use AWS
\* and Docker" the count is 2 and screening_complete is true, and a following
\* turn for which the primary classifier returns SCHEDULE is dispatched to the
\* scheduling advisor with action SCHEDULE.
C11_Original ==
    /\ scenario = 1 => screening_details_collected = 1 /\ ~screening_complete
    /\ scenario = 2 => screening_details_collected = 2 /\ screening_complete
    /\ scenario = 3 /\ turn # NoTurn =>
           turn.final = "SCHEDULE" /\ turn.intent # "none"

\* C11 amended: the first utterance carries two signals (experience keyword
\* with a numeral, and a technology keyword), so after it the count is 2 and
\* screening_complete is true; after the second utterance the count is 3 and
\* screening_complete is still true; the following turn for which the primary
\* classifier returns SCHEDULE is dispatched to the scheduling advisor with
\* action SCHEDULE.
C11_EndToEnd ==
    /\ scenario = 1 => screening_details_collected = 2 /\ screening_complete
    /\ scenario = 2 => screening_details_collected = 3 /\ screening_complete
    /\ scenario = 3 /\ pc # "idle" => cur.final = "SCHEDULE"
    /\ scenario = 3 /\ turn # NoTurn =>
           turn.final = "SCHEDULE" /\ turn.intent # "none"

C11_Witness ==
    /\ scenario = 3 /\ turn.outcome = "returned" /\ turn.action = "SCHEDULE"
    /\ turn.response \in {"slots_offer", "general_offer"}


\* the day the claim resolves against: the timestamp handed over, else the
\* conversation anchor
C12_Ref == IF parsed.timestamp = None THEN parsed.start ELSE parsed.timestamp

\* C12: with "tomorrow" in the text the date is reference + 1 day whatever
\* else the text holds; otherwise with a weekday name it is reference +
\* daysAhead, daysAhead = (target - referenceWeekday) mod 7 with 0 replaced by
\* 7 (1..7), plus 7 with "next" in the text (8..14), and falls on the named
\* weekday; with neither the date is unresolved. From Monday 2024-06-10,
\* "tomorrow" is 2024-06-11 and "next Tuesday" is 2024-06-18.
C12_DateResolution ==
    parsed.called /\ parsed.timestamp # Malformed =>
        LET r == C12_Ref
            next == "next" \in parsed.words
            named == parsed.words \cap DayNames
        IN /\ "tomorrow" \in parsed.words => parsed.date = strftime(r + 1)
           /\ "tomorrow" \notin parsed.words /\ named # {} =>
                \E w \in named :
                    LET a == (day_names[w] - weekday(r)) % 7
                        b == IF a = 0 THEN 7 ELSE a
                        n == IF next THEN b + 7 ELSE b
                    IN /\ parsed.date = strftime(r + n)
                       /\ weekday(r + n) = day_names[w]
                       /\ n \in (IF next THEN 8..14 ELSE 1..7)
           /\ "tomorrow" \notin parsed.words /\ named = {} => parsed.date = <<>>
           /\ r = 0 /\ parsed.words = {"tomorrow"} => parsed.date = <<2024, 6, 11>>
           /\ r = 0 /\ parsed.words = {"next", "tuesday"} =>
                parsed.date = <<2024, 6, 18>>

C12_Witness ==
    /\ parsed.called /\ C12_Ref = 0 /\ parsed.words = {"next", "tuesday"}
    /\ parsed.date = <<2024, 6, 18>>

\* C13 as stated: the minute is "00" when absent; with "pm" the hour is h + 12
\* unless h is 12; with "am" and h = 12 the hour is 0; otherwise the hour is
\* h; the result is the two-digit hour, ":" and the minute.
C13_Original ==
    parsed.called /\ parsed.clock # NoClock =>
        LET h == parsed.clock.hour
            hour == IF parsed.clock.period = "pm" /\ h # 12 THEN h + 12
                    ELSE IF parsed.clock.period = "am" /\ h = 12 THEN 0
                    ELSE h
            minute == IF parsed.clock.minute = <<>> THEN <<0, 0>>
                      ELSE parsed.clock.minute
        IN parsed.time = <<hour \div 10, hour % 10, minute[1], minute[2]>>

\* C13 amended: with "pm" the hour is h + 12 when h is below 12 and stays h
\* when h is 12 or more; the rest as stated. "10am" is "10:00", "2:30pm" is
\* "14:30", "12am" is "00:00", "12pm" is "12:00".
C13_TimeResolution ==
    parsed.called /\ parsed.clock # NoClock =>
        LET h == parsed.clock.hour
            hour == IF parsed.clock.period = "pm" /\ h < 12 THEN h + 12
                    ELSE IF parsed.clock.period = "am" /\ h = 12 THEN 0
                    ELSE h
            minute == IF parsed.clock.minute = <<>> THEN <<0, 0>>
                      ELSE parsed.clock.minute
        IN /\ parsed.time = <<hour \div 10, hour % 10, minute[1], minute[2]>>
           /\ parsed.clock = [hour |-> 10, minute |-> <<>>, period |-> "am"]
                => parsed.time = <<1, 0, 0, 0>>
           /\ parsed.clock = [hour |-> 2, minute |-> <<3, 0>>, period |-> "pm"]
                => parsed.time = <<1, 4, 3, 0>>
           /\ parsed.clock = [hour |-> 12, minute |-> <<>>, period |-> "am"]
                => parsed.time = <<0, 0, 0, 0>>
           /\ parsed.clock = [hour |-> 12, minute |-> <<>>, period |-> "pm"]
                => parsed.time = <<1, 2, 0, 0>>

C13_Witness ==
    /\ parsed.called
    /\ parsed.clock = [hour |-> 12, minute |-> <<>>, period |-> "am"]
    /\ parsed.time = <<0, 0, 0, 0>>

\* C14: a scheduling turn classified REQUEST_AVAILABILITY, PROPOSE_TIME or
\* OTHER returns booked = false and leaves every slot's availability as it
\* was, whatever tool call the LLM chooses; only the handling of a
\* CONFIRM_BOOKING turn flips a slot.
C14_OnlyConfirmationBooks ==
    [][turn = NoTurn /\ turn' # NoTurn /\
       turn'.intent \in {"REQUEST_AVAILABILITY", "PROPOSE_TIME", "OTHER"}
          => Schedule' = Schedule /\ ~turn'.booked]_vars

\* C15: when the booking attempt of a CONFIRM_BOOKING turn fails because the
\* recovered slot is not available any more, the advisor returns the apology
\* with booked = false, the store is unchanged, process_turn returns SCHEDULE
\* and not END, is_interview_booked is false, and the conversation stays able
\* to book in a later turn (idle, screening complete; the witness is such a
\* later booking; a slot once taken is never available again, so the slot
\* booked later is a different one).
C15_BookingConflict ==
    /\ [](turn.response = "slot_taken" =>
            /\ turn.intent = "CONFIRM_BOOKING" /\ ~turn.booked
            /\ turn.outcome = "returned" /\ turn.action = "SCHEDULE"
            /\ ~is_interview_booked
            /\ ~check_slot_availability(Schedule, turn.slot)
            /\ (successes[turn.slot] >= 1 => conflict)
            /\ pc = "idle" /\ screening_complete)
    /\ [][turn = NoTurn /\ turn' # NoTurn /\ turn'.response = "slot_taken"
            => Schedule' = Schedule /\ successes' = successes]_vars

C15_Witness ==
    /\ conflict /\ turn.response = "confirmed" /\ turn.booked
    /\ is_interview_booked /\ ~Schedule[turn.slot]
    /\ successes[turn.slot] = 1

\* the valid labels of a classifier, as atoms, and its safe fallback
C16_Labels(c) ==
    CASE c = "decide_action" -> {<<"CONTINUE">>, <<"SCHEDULE">>, <<"END">>}
      [] c = "evaluate" -> {<<"END">>, <<"CONTINUE">>}
      [] c = "classify_intent" ->
            {REQUEST_AVAILABILITY, PROPOSE_TIME, CONFIRM_BOOKING, <<"OTHER">>}
C16_Fallback(c) == IF c = "classify_intent" THEN "OTHER" ELSE "CONTINUE"
C16_Name(l) == IF Len(l) = 1 THEN l[1] ELSE IntentBranch(l)

\* C16: each of the three classifiers reads the raw output case-insensitively;
\* an output that contains exactly one valid label resolves to that label, and
\* an output that contains no valid label resolves to the safe fallback
\* (CONTINUE, CONTINUE, OTHER).
C16_ClassifierContract ==
    classified # NoLabel =>
        LET valid == C16_Labels(classified.classifier)
            present == {l \in valid : Contains(UpperText(classified.text), l)}
        IN /\ present = {} => classified.label = C16_Fallback(classified.classifier)
           /\ \A l \in valid :
                present = {l} => classified.label = C16_Name(l)

\* C17: from any state of the conversation, reset leaves
\* screening_details_collected = 0, screening_complete = FALSE,
\* is_interview_booked = FALSE and a new conversation_start, and changes
\* nothing in the store: the slots booked before the reset stay unavailable.
C17_Reset ==
    [][reset =>
          /\ screening_details_collected' = 0
          /\ ~screening_complete'
          /\ ~is_interview_booked'
          /\ conversation_start' > conversation_start
          /\ Schedule' = Schedule
          /\ successes' = successes]_vars

\* a conversation that was reset after its interview was booked
C17_Witness ==
    /\ conversation_start = 1 /\ scenario = 0
    /\ screening_details_collected = 0 /\ ~screening_complete
    /\ ~is_interview_booked
    /\ \E k \in DOMAIN Schedule : ~Schedule[k] /\ successes[k] = 1

\* C18: the date resolved for a PROPOSE_TIME turn depends on the reference
\* time handed over (the conversation's anchor, or the caller-supplied
\* timestamp) and never on the wall-clock time of the turn: resolved at any
\* other time of the conversation, the same text gives the same date.
C18_ReferenceTime ==
    parsed.called =>
        \A t \in RefDates :
            parse_datetime([words |-> parsed.words, clock |-> parsed.clock],
                           Reference(parsed.timestamp, parsed.start), t).date
                = parsed.date

\* C19: a PROPOSE_TIME turn whose date or time the resolver left unresolved
\* answers with the clarifying question and does not query the store; a turn
\* whose date and time both resolved answers by the store's availability of
\* the slot - the offer to book when it is available, otherwise the near-date
\* alternatives, or the request for another time when there are none - and
\* never with the clarifying question.
C19_TimeProposal ==
    turn.intent = "PROPOSE_TIME" =>
        LET pd == turn.proposal[1]
            pt == turn.proposal[2]
        IN /\ turn.outcome = "returned" /\ ~turn.booked
           /\ pd = None \/ pt = None =>
                turn.response = "clarify" /\ "store" \notin turn.failed
           /\ pd # None /\ pt # None =>
                /\ turn.response # "clarify"
                /\ check_slot_availability(Schedule, <<pd, pt, DefaultPosition>>)
                     => turn.response = "offer_to_book"
                /\ ~check_slot_availability(Schedule, <<pd, pt, DefaultPosition>>)
                     => turn.response =
                          IF get_slots_near_date(Schedule, pd, DefaultPosition,
                                                 DefaultLimit) # <<>>
                          THEN "nearby" ELSE "suggest_another"

\* the content of the deployed store
C20_Store ==
    IF backend = "sqlite" THEN Schedule
    ELSE IF backend = "mongo" THEN collection ELSE mock

\* C20: get_slots_near_date(target, position, limit) returns the first
\* min(limit, number of candidates) elements of the list of all available
\* slots of the position in the whole store, ordered by |date - target|
\* ascending and, within the same distance, by time of day ascending; every
\* returned slot is available and of the requested position.
C20_NearDateRanking ==
    ranked.called =>
        LET cand == {k \in DOMAIN C20_Store :
                        C20_Store[k] /\ k[3] = ranked.position}
            rank(k) == Abs(k[1] - ranked.target) * 100 + k[2]
            slots == ranked.slots
            n == Cardinality(cand)
        IN /\ Len(slots) = IF n < ranked.limit THEN n ELSE ranked.limit
           /\ \A i \in 1..Len(slots) : slots[i] \in cand
           /\ \A i, j \in 1..Len(slots) :
                i < j => slots[i] # slots[j] /\ rank(slots[i]) <= rank(slots[j])
           /\ \A k \in cand \ SeqRange(slots), i \in 1..Len(slots) :
                rank(slots[i]) <= rank(k)

\* C21: get_available_slots(position, limit) with no date filter returns the
\* first min(limit, number of candidates) of the available slots of the
\* position dated today or later, in (date, time) order.
C21_EarliestAvailable ==
    sret.op = "get_available_slots" /\ sret.key[1] = None =>
        LET cand == {k \in DOMAIN C20_Store :
                        C20_Store[k] /\ k[3] = sret.key[3] /\ k[1] >= Today}
            n == Cardinality(cand)
            slots == sret.slots
        IN /\ Len(slots) = IF n < sret.limit THEN n ELSE sret.limit
           /\ \A i \in 1..Len(slots) : slots[i] \in cand
           /\ \A i, j \in 1..Len(slots) :
                i < j => DateTimeKey(slots[i]) < DateTimeKey(slots[j])
           /\ \A k \in cand \ SeqRange(slots), i \in 1..Len(slots) :
                DateTimeKey(slots[i]) < DateTimeKey(k)

\* the position in the history of the last passage the pattern matches, 0 if none
C22_LastMatch(history) ==
    LET occ == {i \in 1..Len(history) : date_pattern(history[i])}
    IN IF occ = {} THEN 0 ELSE CHOOSE i \in occ : \A j \in occ : j <= i

\* C22: in a CONFIRM_BOOKING turn the slot the subsystem attempts to book is
\* the last occurrence of '<date> at <time>' in the history; with no such
\* occurrence no booking is attempted, the store is unchanged, booked is false
\* and the response asks which slot to book.
C22_LastOfferWins ==
    /\ [](\A rec \in {cur, turn} :
            rec.intent = "CONFIRM_BOOKING" =>
                LET i == C22_LastMatch(rec.history)
                IN IF i = 0
                   THEN /\ rec.slot = NoSlot /\ ~rec.booked
                        /\ rec = turn /\ rec.response = "which_slot"
                   ELSE rec.slot = <<rec.history[i][1], rec.history[i][2],
                                     DefaultPosition>>)
    /\ [][turn = NoTurn /\ turn' # NoTurn /\ turn'.intent = "CONFIRM_BOOKING"
            /\ C22_LastMatch(turn'.history) = 0
              => Schedule' = Schedule /\ successes' = successes]_vars

\* the slot offered last was booked although another slot was offered before
C22_Witness ==
    /\ turn.intent = "CONFIRM_BOOKING" /\ turn.booked
    /\ Len(turn.history) = 2
    /\ date_pattern(turn.history[1]) /\ date_pattern(turn.history[2])
    /\ turn.history[1] # turn.history[2]
    /\ turn.slot = <<turn.history[2][1], turn.history[2][2], DefaultPosition>>
    /\ ~Schedule[turn.slot]

\* C23: a failed call of the language model inside the secondary classifiers
\* is recovered locally.  A failed exit validation answers CONTINUE, so it
\* never confirms an END: the turn ends only if the interview is already
\* booked or the other validation, which did not fail, answered END.  A failed
\* intent classification is the intent OTHER: unless the store itself fails,
\* the turn returns the general availability offer with booked = false.
C23_LocalRecovery ==
    turn # NoTurn =>
        /\ "exit1" \in turn.vfailed =>
              /\ turn.exit1 = "CONTINUE"
              /\ turn.final = "END" =>
                    \/ is_interview_booked
                    \/ turn.exit2 = "END" /\ "exit2" \notin turn.vfailed
        /\ "exit2" \in turn.vfailed =>
              turn.exit2 = "CONTINUE" /\ turn.final = "CONTINUE"
        /\ "intent_llm" \in turn.failed =>
              /\ turn.intent = "OTHER"
              /\ ~turn.booked
              /\ "store" \notin turn.failed =>
                    /\ turn.outcome = "returned"
                    /\ turn.action = "SCHEDULE"
                    /\ turn.response \in {"general_offer", "general_ask"}

C23_Witness ==
    /\ turn.tentative = "END" /\ "exit1" \in turn.vfailed
    /\ turn.outcome = "returned" /\ turn.action = "CONTINUE"

\* the participant lines of a history that are negative turns
C24_Negatives(prior) == Len(SelectSeq(prior, LAMBDA l : l \in {"no", "nope"}))

\* C24: a tentative CONTINUE becomes END only when the disengagement heuristic
\* matches and the ExitValidator answers END; the heuristic matches only on a
\* negative phrase with at least 2 negative participant turns before the
\* current one, or on a refusal phrase; a tentative CONTINUE for which it does
\* not match asks no validator and stays CONTINUE.
C24_Escalation ==
    validated # NoValidation =>
        /\ validated.tentative = "CONTINUE" /\ validated.final = "END" =>
              validated.matched /\ validated.exit2 = "END"
        /\ validated.matched =>
              \/ /\ validated.phrases \cap disengaged # {}
                 /\ C24_Negatives(validated.prior) >= 2
              \/ validated.phrases \cap refusals # {}
        /\ validated.tentative = "CONTINUE" /\ ~validated.matched =>
              validated.exit2 = "none" /\ validated.final = "CONTINUE"

C25_e(u) == IF u \cap exp_keywords # {} /\ u \cap Digits # {} THEN 1 ELSE 0
C25_t(u) == IF u \cap tech_keywords # {} THEN 1 ELSE 0

\* C25: a process_turn call changes the signal count by exactly e + t, where
\* e = 1 if the utterance holds an experience keyword and a numeral and t = 1
\* if it holds a technology keyword: by 0, 1 or 2, never downwards, whatever
\* the classifiers answered and whatever action was decided.
C25_SignalCount ==
    validated # NoValidation =>
        /\ validated.count =
              validated.count0 + C25_e(validated.phrases) + C25_t(validated.phrases)
        /\ validated.count - validated.count0 \in 0..2

C25_Witness ==
    /\ validated # NoValidation
    /\ validated.count = validated.count0 + 2
    /\ validated.answers[1].fails
    /\ validated.final = "ERROR"

\* C26: once a turn has set is_interview_booked, it stays true through every
\* later process_turn call of the conversation, whatever its action and the
\* result of its scheduling handler; only reset clears it.
C26_BookedStays ==
    [][is_interview_booked /\ ~is_interview_booked'
          => conversation_start' # conversation_start]_vars

\* C27: handle_scheduling returns booked = true only if book_slot returned
\* success for the recovered slot during that call, and the slot is then
\* unavailable in the shared store; and no two handle_scheduling calls, of
\* this or of another conversation, return booked = true for the same slot:
\* when a call returns booked = true no book_slot had succeeded on its slot
\* before (successes counts the successful book_slot calls of all conversations
\* on a slot).
C27_BookedOnce ==
    /\ [](turn.booked =>
            /\ turn.intent = "CONFIRM_BOOKING"
            /\ turn.slot \in DOMAIN Schedule /\ ~Schedule[turn.slot])
    /\ [][turn = NoTurn /\ turn'.booked
            => /\ successes'[turn'.slot] = successes[turn'.slot] + 1
               /\ successes[turn'.slot] = 0]_vars

\* a book_slot call through execute_function_call has returned success for
\* slot k. On the in-memory fallback data the advisor's own manager books a
\* slot at most once and marks it in its own list, so every further success
\* is one of execute_function_call; on a shared table or collection every
\* successful booking leaves the same store.
C28_Booked(k) ==
    IF backend = "mongo_mock"
    THEN successes[k] > (IF k \in DOMAIN mock /\ ~mock[k] THEN 1 ELSE 0)
    ELSE successes[k] >= 1

\* C28: after execute_function_call('book_slot') returned success for a slot,
\* a later execute_function_call of check_slot_availability reports it
\* unavailable, a later execute_function_call of book_slot does not pass its
\* availability check, and the advisor's own store handle does not list the
\* slot, on every backend, the in-memory fallback data included.
C28_DurableToolBooking ==
    /\ [](sret.fresh /\ sret.op = "check_slot_availability" /\ sret.ok
            => ~C28_Booked(sret.key))
    /\ [](~sret.fresh /\ sret.op = "get_available_slots"
            => \A i \in 1..Len(sret.slots) : ~C28_Booked(sret.slots[i]))
    /\ [][\A t \in Callers :
            Fresh(t) /\ tpc[t] = "idle" /\ tpc'[t] = "write"
                => ~C28_Booked(tkey'[t])]_vars

\* C29: in every state that process_turn and reset calls reach,
\* screening_complete is true exactly when at least 2 signals are counted.
C29_CompleteIffTwo ==
    screening_complete <=> screening_details_collected >= 2

\* a conversation that was reset has counted 2 signals again
C29_Witness ==
    /\ conversation_start > 0
    /\ turn.outcome = "returned" /\ ~turn.complete0
    /\ screening_complete /\ screening_details_collected >= 2

\* C30: a time the resolver returns is a slot time HH:MM with HH in 00..23
\* and MM in 00..59, for every hour token of one or two digits, every minute
\* token of two digits and every am/pm marker.
C30_ValidTime ==
    parsed.called /\ parsed.time # <<>> =>
        /\ Len(parsed.time) = 4
        /\ \A i \in 1..4 : parsed.time[i] \in 0..9
        /\ 10 * parsed.time[1] + parsed.time[2] \in 0..23
        /\ 10 * parsed.time[3] + parsed.time[4] \in 0..59

====
